---------------------------- MODULE Spec2Model ----------------------------
(***************************************************************************)
(* Model of scripts/validate.js of yusheng929/plugins-list: the validator  *)
(* of plugins.json.  The source file holds two generations of the script:  *)
(* lines 1-164 (no home, no branch, no remote check) and lines 165-402     *)
(* (home required, validatePackageJson fetches each repository's           *)
(* package.json).  The variable schema says which generation is run.       *)
(*                                                                         *)
(* JavaScript values are modelled as follows.                              *)
(*   - a string field is a TLA+ string; Undefined stands for a missing     *)
(*     property and "" for the empty string (both falsy);                  *)
(*   - a URL string is the sequence of its pieces <<scheme, host, path>>;  *)
(*     a string that is no URL has no scheme piece; <<>> is the missing or *)
(*     empty string;                                                       *)
(*   - description is known by its length only;                            *)
(*   - time is known by whether it matches the regular expression and by   *)
(*     its month;                                                          *)
(*   - author, repo and files carry isArray and their items.               *)
(* A thrown Error is an error record; NoError means the call returned.     *)
(***************************************************************************)
EXTENDS Integers, Sequences, FiniteSets, TLC

(* ------------------------------ bounds ------------------------------- *)

\* Largest number of records in plugins.json.
MaxPlugins == 3

(* ------------------------- program constants ------------------------- *)

\* plugin.description.length > 50
MaxDescription == 50

Undefined == "undefined"

\* JavaScript truthiness of a string-valued property.
Truthy(s) == s \notin {Undefined, ""}

\* JavaScript truthiness of a URL-valued property (a string).
TruthyUrl(u) == u # <<>>

Schemes == {"https:", "http:"}

\* /^\d{4}-\d{2}-\d{2} \d{2}:\d{2}:\d{2}$/ and new Date(...) is not NaN.
isValidTimeFormat(time) ==
    IF ~time.pattern THEN FALSE
    ELSE time.month \in 1..12

\* new URL(url) does not throw: an absolute URL starts with a scheme.
isValidUrl(url) == Len(url) >= 1 /\ url[1] \in Schemes

(* ------------------------------ errors ------------------------------- *)

NoError == [kind |-> "none", plugin |-> "", field |-> "", url |-> <<>>]

Err(kind, plugin, field, url) ==
    [kind |-> kind, plugin |-> plugin, field |-> field, url |-> url]

\* `${plugin.name}`
NameOrUnknown_raw(plugin) == plugin.name

\* `${plugin.name || '未知'}`
NameOrUnknown(plugin) == IF Truthy(plugin.name) THEN plugin.name ELSE "unknown"

\* plugin[field] is truthy.  An empty array is truthy.
HasField(plugin, field) ==
    CASE field = "name" -> Truthy(plugin.name)
      [] field = "type" -> Truthy(plugin.type)
      [] field = "description" -> plugin.description.present /\ plugin.description.length > 0
      [] field = "license" -> plugin.license.present
      [] field = "time" -> plugin.time.present
      [] field = "author" -> plugin.author.present
      [] field = "repo" -> plugin.repo.present
      [] field = "home" -> TruthyUrl(plugin.home)

requiredFields(schema) ==
    IF schema = "extended"
    THEN <<"name", "type", "description", "license", "time", "author", "repo", "home">>
    ELSE <<"name", "type", "description", "license", "time", "author", "repo">>

\* The type list of validateBaseFields.
BaseTypes == {"github", "gitee", "gitcode", "gitlab", "npm"}

\* The validTypes list of validateRepo.
validTypes == {"github", "gitee", "gitlab", "gitcode", "npm"}

\* The least element of a set of indices, 0 when there is none: the place
\* where a for-of loop throws first.
First(S) == IF S = {} THEN 0 ELSE CHOOSE i \in S : \A k \in S : i <= k

(* ---------------------------- validators ----------------------------- *)

\* validateBaseFields: the error thrown, or NoError.
validateBaseFields(plugin, schema) ==
    LET req == requiredFields(schema)
        miss == First({k \in 1..Len(req) : ~HasField(plugin, req[k])})
    IN  IF miss # 0
        THEN Err("MissingField", NameOrUnknown(plugin), req[miss], <<>>)
        ELSE IF ~isValidTimeFormat(plugin.time)
        THEN Err("InvalidTimestamp", plugin.name, "time", <<>>)
        ELSE IF plugin.description.length > MaxDescription
        THEN Err("DescriptionTooLong", plugin.name, "description", <<>>)
        ELSE IF ~Truthy(plugin.license.name) \/ ~TruthyUrl(plugin.license.url)
                \/ ~isValidUrl(plugin.license.url)
        THEN Err("InvalidLicense", plugin.name, "license", <<>>)
        ELSE IF ~plugin.author.isArray \/ Len(plugin.author.items) = 0
        THEN Err("InvalidAuthors", plugin.name, "author", <<>>)
        ELSE IF ~plugin.repo.isArray \/ Len(plugin.repo.items) = 0
        THEN Err("InvalidRepositories", plugin.name, "repo", <<>>)
        ELSE IF plugin.type \notin BaseTypes
        THEN Err("InvalidVariant", plugin.name, plugin.type, <<>>)
        ELSE IF schema = "extended" /\ ~isValidUrl(plugin.home)
        THEN Err("InvalidHomepage", plugin.name, "home", <<>>)
        ELSE NoError

\* validateAuthor looking at the first author only.
validateAuthor_firstOnly(plugin) ==
    LET as == plugin.author.items
    IN  IF ~Truthy(as[1].name)
        THEN Err("MissingAuthorName", plugin.name, "author", <<>>)
        ELSE IF ~TruthyUrl(as[1].home) \/ ~isValidUrl(as[1].home)
        THEN Err("InvalidAuthorHomepage", plugin.name, "author", as[1].home)
        ELSE NoError

\* validateAuthor: the first author, in declared order, that is rejected.
validateAuthor(plugin) ==
    LET as == plugin.author.items
        bad == First({k \in 1..Len(as) :
                   ~Truthy(as[k].name) \/ ~TruthyUrl(as[k].home) \/ ~isValidUrl(as[k].home)})
    IN  IF bad = 0 THEN NoError
        ELSE IF ~Truthy(as[bad].name)
        THEN Err("MissingAuthorName", plugin.name, "author", <<>>)
        ELSE Err("InvalidAuthorHomepage", plugin.name, "author", as[bad].home)

\* validateRepo without the check of the URL.
validateRepo_kindOnly(plugin) ==
    LET rs == plugin.repo.items
        bad == First({k \in 1..Len(rs) : rs[k].type \notin validTypes})
    IN  IF bad = 0 THEN NoError
        ELSE Err("InvalidRepoKind", plugin.name, rs[bad].type, <<>>)

\* validateRepo: the first repository, in declared order, that is rejected.
validateRepo(plugin) ==
    LET rs == plugin.repo.items
        bad == First({k \in 1..Len(rs) :
                   rs[k].type \notin validTypes \/ ~TruthyUrl(rs[k].url)
                   \/ ~isValidUrl(rs[k].url)})
    IN  IF bad = 0 THEN NoError
        ELSE IF rs[bad].type \notin validTypes
        THEN Err("InvalidRepoKind", plugin.name, rs[bad].type, <<>>)
        ELSE Err("InvalidRepoUrl", plugin.name, "repo", rs[bad].url)

\* validateAppPlugin
validateAppPlugin(plugin) ==
    LET fs == plugin.files.items
        bad == First({k \in 1..Len(fs) : ~isValidUrl(fs[k])})
    IN  IF ~plugin.files.isArray \/ Len(fs) = 0
        THEN Err("MissingFiles", plugin.name, "files", <<>>)
        ELSE IF bad # 0
        THEN Err("InvalidFileUrl", plugin.name, "files", fs[bad])
        ELSE NoError

\* validateUniquePackages comparing each name with the previous record's only.
validateUniquePackages_adjacent(ps) ==
    LET dup == First({k \in 2..Len(ps) : ps[k - 1].name = ps[k].name})
    IN  IF dup = 0 THEN NoError
        ELSE Err("DuplicateName", ps[dup].name, "name", <<>>)

\* validateUniquePackages: the first record whose name the Set already holds.
validateUniquePackages(ps) ==
    LET dup == First({k \in 1..Len(ps) : \E m \in 1..(k - 1) : ps[m].name = ps[k].name})
    IN  IF dup = 0 THEN NoError
        ELSE Err("DuplicateName", ps[dup].name, "name", <<>>)

\* The if / else-if / else on plugin.type at the end of main's loop body.
variantDispatch(plugin) ==
    IF plugin.type = "app" THEN validateAppPlugin(plugin)
    ELSE IF plugin.type = "git" \/ plugin.type = "npm" THEN NoError
    ELSE Err("InvalidVariant", plugin.name, plugin.type, <<>>)

(* -------------------------- remote checking -------------------------- *)

filePath == "package.json"

\* String.prototype.replace(a, b): the first occurrence only.
ReplaceFirst(url, a, b) ==
    LET at == First({k \in 1..Len(url) : url[k] = a})
    IN  IF at = 0 THEN url ELSE [url EXCEPT ![at] = b]

\* getRawFileUrl with github treated like the other hosts.
getRawFileUrl_noRewrite(repo) ==
    CASE repo.type = "npm" ->
           <<"https:", "registry.npmjs.org", "/">> \o repo.url \o <<"/latest">>
      [] OTHER -> repo.url \o <<"/raw/", repo.branch, "/", filePath>>

\* getRawFileUrl.  The default branch throws; validateRepo has then already
\* rejected the type, so <<>> is never fetched.
getRawFileUrl(repo) ==
    CASE repo.type = "github" ->
           ReplaceFirst(repo.url, "github.com", "raw.githubusercontent.com")
             \o <<"/", repo.branch, "/", filePath>>
      [] repo.type \in {"gitee", "gitlab", "gitcode"} ->
           repo.url \o <<"/raw/", repo.branch, "/", filePath>>
      [] repo.type = "npm" ->
           <<"https:", "registry.npmjs.org", "/">> \o repo.url \o <<"/latest">>
      [] OTHER -> <<>>

\* The catch of validatePackageJson: every error is thrown again with the
\* plugin's name and the repository's URL.
Wrap(plugin, repo, kind) == Err(kind, plugin.name, repo.type, repo.url)

\* beforeFetch with the npm test written `if (repo.branch)`.
beforeFetch_truthy(plugin, repo) ==
    IF repo.type = "npm"
    THEN IF Truthy(repo.branch)
         THEN [do |-> "throw", err |-> Wrap(plugin, repo, "UnexpectedBranch")]
         ELSE [do |-> "skip", err |-> NoError]
    ELSE IF ~Truthy(repo.branch)
         THEN [do |-> "throw", err |-> Wrap(plugin, repo, "MissingBranch")]
         ELSE [do |-> "fetch", err |-> NoError]

\* validatePackageJson up to its fetch: the error thrown, "skip" when it
\* returns without fetching, "fetch" when it goes on to fetch.
beforeFetch(plugin, repo) ==
    IF repo.type = "npm"
    THEN IF repo.branch # ""
         THEN [do |-> "throw", err |-> Wrap(plugin, repo, "UnexpectedBranch")]
         ELSE [do |-> "skip", err |-> NoError]
    ELSE IF ~Truthy(repo.branch)
         THEN [do |-> "throw", err |-> Wrap(plugin, repo, "MissingBranch")]
         ELSE [do |-> "fetch", err |-> NoError]

\* What a fetch can bring: the call rejects, the status is not ok, the body is
\* no JSON, the JSON lacks name or version, or all is there.
Responses == {"rejected", "notOk", "notJson", "noName", "noVersion", "ok"}

\* validatePackageJson after its fetch.
afterFetch(plugin, repo, response) ==
    CASE response \in {"rejected", "notOk"} ->
           Wrap(plugin, repo, "RemoteFetchFailed")
      [] response \in {"notJson", "noName", "noVersion"} ->
           Wrap(plugin, repo, "RemoteManifestIncomplete")
      [] OTHER -> NoError

(* ------------------------------ inputs ------------------------------- *)

GoodUrl(host, path) == <<"https:", host, path>>
NotAUrl == <<"not a url">>

GoodTime == [present |-> TRUE, pattern |-> TRUE, month |-> 1]
GoodAuthor == [name |-> "shijin", home |-> GoodUrl("github.com", "/sj817")]
GoodRepo == [type |-> "github", url |-> GoodUrl("github.com", "/karinjs/karin-plugin-basic"),
             branch |-> "main"]
GiteeRepo == [type |-> "gitee", url |-> GoodUrl("gitee.com", "/karinjs/karin-plugin-basic"),
              branch |-> "main"]
NpmRepo == [type |-> "npm", url |-> GoodUrl("www.npmjs.com", "/package/karin-plugin-basic"),
            branch |-> ""]
Arr(items) == [present |-> TRUE, isArray |-> TRUE, items |-> items]
NoFiles == [isArray |-> FALSE, items |-> <<>>]
Files(items) == [isArray |-> TRUE, items |-> items]
GoodFiles == Files(<<GoodUrl("example.com", "/download/plugin-v1.0.0.js"),
                     GoodUrl("mirror.example.com", "/download/plugin-v1.0.0.js")>>)

\* A record that is well-formed in both schema generations, of the given
\* name and type; an app record carries two file links.
Good(name, type) ==
    [name |-> name, type |-> type,
     description |-> [present |-> TRUE, length |-> MaxDescription],
     license |-> [present |-> TRUE, name |-> "MIT", url |-> GoodUrl("github.com", "/LICENSE")],
     time |-> GoodTime,
     author |-> Arr(<<GoodAuthor>>),
     repo |-> Arr(<<GoodRepo>>),
     home |-> GoodUrl("github.com", "/karinjs"),
     files |-> IF type = "app" THEN GoodFiles ELSE NoFiles]

Variants == {"npm", "git", "app"}

\* The records that differ from Good(name, "npm") in one property, and the
\* git and app records the claims are about.
Variations(name) ==
    LET g == Good(name, "npm")
        a == Good(name, "app")
        absent == [present |-> FALSE, isArray |-> FALSE, items |-> <<>>]
    IN  { [g EXCEPT !.type = Undefined],
          [g EXCEPT !.type = "github"],
          [g EXCEPT !.type = "plugin"],
          [g EXCEPT !.description = [present |-> FALSE, length |-> 0]],
          [g EXCEPT !.description.length = MaxDescription + 1],
          [g EXCEPT !.license = [present |-> FALSE, name |-> Undefined, url |-> <<>>]],
          [g EXCEPT !.license.name = Undefined],
          [g EXCEPT !.license.url = NotAUrl],
          [g EXCEPT !.time = [present |-> FALSE, pattern |-> FALSE, month |-> 0]],
          [g EXCEPT !.time.pattern = FALSE],
          [g EXCEPT !.time.month = 13],
          [g EXCEPT !.author = absent],
          [g EXCEPT !.author.isArray = FALSE],
          [g EXCEPT !.author.items = <<>>],
          [g EXCEPT !.author.items = <<[GoodAuthor EXCEPT !.name = Undefined]>>],
          [g EXCEPT !.author.items = <<GoodAuthor, [GoodAuthor EXCEPT !.home = NotAUrl]>>],
          [g EXCEPT !.repo = absent],
          [g EXCEPT !.repo.items = <<>>],
          [g EXCEPT !.repo.items = <<[GoodRepo EXCEPT !.type = "svn"]>>],
          [g EXCEPT !.repo.items = <<GoodRepo, [GiteeRepo EXCEPT !.url = NotAUrl]>>],
          [g EXCEPT !.repo.items = <<[GoodRepo EXCEPT !.branch = Undefined]>>],
          [g EXCEPT !.repo.items = <<[GoodRepo EXCEPT !.branch = ""]>>],
          [g EXCEPT !.repo.items = <<NpmRepo>>],
          [g EXCEPT !.repo.items = <<[NpmRepo EXCEPT !.branch = "main"]>>],
          [g EXCEPT !.repo.items = <<[NpmRepo EXCEPT !.branch = Undefined]>>],
          [g EXCEPT !.repo.items = <<GoodRepo, GiteeRepo>>],
          [g EXCEPT !.repo.items = <<NpmRepo, GiteeRepo>>],
          [g EXCEPT !.repo.items = <<GoodRepo, [GiteeRepo EXCEPT !.branch = Undefined]>>],
          [g EXCEPT !.home = <<>>],
          [g EXCEPT !.home = NotAUrl],
          [Good(name, "git") EXCEPT !.repo.items = <<GoodRepo, GiteeRepo>>],
          [a EXCEPT !.files = NoFiles],
          [a EXCEPT !.files = Files(<<>>)],
          [a EXCEPT !.files = Files(<<GoodFiles.items[1], NotAUrl>>)] }

\* The names records carry; Undefined is the record without a name.
NamePool == <<"karin-plugin-basic", "karin-plugin-git-example", "karin-plugin-app-example",
              "karin-plugin-4", "karin-plugin-5">>

NameAt(c) == IF c = 0 THEN Undefined ELSE NamePool[c]

Max(S) == IF S = {} THEN 0 ELSE CHOOSE i \in S : \A k \in S : i >= k

\* Which records share a name, up to renaming: record k carries no name (0),
\* a name an earlier record carries, or the next unused name of the pool.
NamePatterns(n) ==
    {f \in [1..n -> 0..n] : \A k \in 1..n : f[k] <= Max({f[m] : m \in 1..(k - 1)}) + 1}

\* A collection of n records: every record is a well-formed record of one of
\* the three variants, but for at most one (the record at d, when d # 0),
\* which is the variation v.
Collection(n, f, ts, d, v) ==
    [k \in 1..n |-> IF k = d THEN v ELSE Good(NameAt(f[k]), ts[k])]

(* ------------------------------- state ------------------------------- *)

VARIABLES
    schema,     \* which generation of the script runs: "base" or "extended"
    plugins,    \* the plugins array of plugins.json
    pc,         \* where main is
    i,          \* the record main's loop is at
    j,          \* the repository the inner loop is at
    inflight,   \* the fetches issued and not yet answered
    log,        \* what has been executed so far, in order
    errors,     \* what console.error has printed
    passed,     \* whether console.log has printed the success line
    status      \* the exit status, -1 while the process runs

vars == <<schema, plugins, pc, i, j, inflight, log, errors, passed, status>>

\* One entry of the log: what ran, on which record and repository, the URL
\* fetched and the answer received.
Ev(ev, pi, rj, url, res) == [ev |-> ev, i |-> pi, j |-> rj, url |-> url, res |-> res]

\* readFile and JSON.parse have given the plugins array; nothing has run.
Init ==
    /\ schema \in {"base", "extended"}
    /\ \E n \in 0..MaxPlugins :
         \E f \in NamePatterns(n), ts \in [1..n -> Variants], d \in 0..n :
           /\ d # 0 => ts[d] = "npm"
           /\ \E v \in (IF d = 0 THEN {Good(Undefined, "npm")} ELSE Variations(NameAt(f[d]))) :
                plugins = Collection(n, f, ts, d, v)
    /\ pc = "unique"
    /\ i = 0
    /\ j = 0
    /\ inflight = {}
    /\ log = <<>>
    /\ errors = <<>>
    /\ passed = FALSE
    /\ status = -1

\* A catch inside the loop: the error is printed and main goes on with the
\* next record.
Throw_continue(err) ==
    /\ errors' = Append(errors, err)
    /\ status' = 1
    /\ IF i < Len(plugins) THEN pc' = "base" /\ i' = i + 1 ELSE pc' = "exit" /\ i' = i
    /\ UNCHANGED <<schema, plugins, j, passed>>

\* The catch of main: console.error once, process.exit(1).
Throw(err) ==
    /\ errors' = Append(errors, err)
    /\ status' = 1
    /\ pc' = "exit"
    /\ UNCHANGED <<schema, plugins, i, j, passed>>

\* A call returned: main goes on at `next`.
Goto(next, ni, nj) ==
    /\ pc' = next
    /\ i' = ni
    /\ j' = nj
    /\ UNCHANGED <<schema, plugins, errors, passed, status>>

\* Where main goes once the record at i is through: the next record, or the
\* end of the loop.
NextRecord == IF i < Len(plugins) THEN Goto("base", i + 1, 0) ELSE Goto("end", i, 0)

\* Where main goes once repository j of the record at i is through.
NextRepo ==
    IF j < Len(plugins[i].repo.items) THEN Goto("package", i, j + 1)
    ELSE Goto("variant", i, 0)

\* validateUniquePackages(plugins)
UniquePackages ==
    /\ pc = "unique"
    /\ log' = Append(log, Ev("unique", 0, 0, <<>>, ""))
    /\ UNCHANGED inflight
    /\ LET err == validateUniquePackages(plugins)
       IN  IF err # NoError THEN Throw(err) ELSE NextRecord

\* validateBaseFields(plugin)
BaseFields ==
    /\ pc = "base"
    /\ log' = Append(log, Ev("base", i, 0, <<>>, ""))
    /\ UNCHANGED inflight
    /\ LET err == validateBaseFields(plugins[i], schema)
       IN  IF err # NoError THEN Throw(err) ELSE Goto("author", i, 0)

\* validateAuthor(plugin)
Author ==
    /\ pc = "author"
    /\ log' = Append(log, Ev("author", i, 0, <<>>, ""))
    /\ UNCHANGED inflight
    /\ LET err == validateAuthor(plugins[i])
       IN  IF err # NoError THEN Throw(err) ELSE Goto("repo", i, 0)

\* validateRepo(plugin); the extended script then enters the loop over the
\* repositories.
Repo ==
    /\ pc = "repo"
    /\ log' = Append(log, Ev("repo", i, 0, <<>>, ""))
    /\ UNCHANGED inflight
    /\ LET err == validateRepo(plugins[i])
       IN  IF err # NoError THEN Throw(err)
           ELSE IF schema = "extended" THEN Goto("package", i, 1)
           ELSE Goto("variant", i, 0)

\* fetch(rawUrl) without await: the loop goes on while the request is out.
IssueFetch_noAwait(rawUrl) ==
    /\ log' = log \o <<Ev("package", i, j, <<>>, ""), Ev("fetch", i, j, rawUrl, "")>>
    /\ inflight' = inflight \cup {<<i, j>>}
    /\ NextRepo

\* const response = await fetch(rawUrl): the request leaves and
\* validatePackageJson, and main with it, waits for the answer.
IssueFetch(rawUrl) ==
    /\ log' = log \o <<Ev("package", i, j, <<>>, ""), Ev("fetch", i, j, rawUrl, "")>>
    /\ inflight' = inflight \cup {<<i, j>>}
    /\ pc' = "await"
    /\ UNCHANGED <<schema, plugins, i, j, errors, passed, status>>

\* validatePackageJson(plugin, repo) up to the await of fetch.
PackageJson ==
    /\ pc = "package"
    /\ LET plugin == plugins[i]
           repo == plugin.repo.items[j]
           b == beforeFetch(plugin, repo)
       IN  CASE b.do = "throw" ->
                  /\ log' = Append(log, Ev("package", i, j, <<>>, ""))
                  /\ UNCHANGED inflight
                  /\ Throw(b.err)
             [] b.do = "skip" ->
                  /\ log' = Append(log, Ev("package", i, j, <<>>, ""))
                  /\ UNCHANGED inflight
                  /\ NextRepo
             [] OTHER -> IssueFetch(getRawFileUrl(repo))

\* The fetch is answered and validatePackageJson runs to its end.
FetchResponse ==
    /\ pc = "await"
    /\ \E response \in Responses :
         LET plugin == plugins[i]
             err == afterFetch(plugin, plugin.repo.items[j], response)
         IN  /\ log' = Append(log, Ev("response", i, j, <<>>, response))
             /\ inflight' = inflight \ {<<i, j>>}
             /\ IF err # NoError THEN Throw(err) ELSE NextRepo

\* The dispatch on plugin.type, validateAppPlugin included.
Variant ==
    /\ pc = "variant"
    /\ log' = IF plugins[i].type = "app"
              THEN log \o <<Ev("variant", i, 0, <<>>, ""), Ev("app", i, 0, <<>>, "")>>
              ELSE Append(log, Ev("variant", i, 0, <<>>, ""))
    /\ UNCHANGED inflight
    /\ LET err == variantDispatch(plugins[i])
       IN  IF err # NoError THEN Throw(err) ELSE NextRecord

\* console.log of the success line, process.exit(0).
Succeed ==
    /\ pc = "end"
    /\ passed' = TRUE
    /\ status' = 0
    /\ pc' = "exit"
    /\ UNCHANGED <<schema, plugins, i, j, inflight, log, errors>>

Next ==
    \/ UniquePackages
    \/ BaseFields
    \/ Author
    \/ Repo
    \/ PackageJson
    \/ FetchResponse
    \/ Variant
    \/ Succeed

Spec == Init /\ [][Next]_vars

(* ------------------- the rules of the specification ------------------ *)
(* The data model of the specification, stated on the records themselves   *)
(* and not through the validators: what the claims measure the code by.    *)

Done == pc = "exit"

IsUrl(u) == u # <<>> /\ u[1] \in {"https:", "http:"}

NonEmpty(str) == str # Undefined /\ str # ""

\* The record lacks the property, or holds a falsy value for it.
Lacks(p, f) ==
    CASE f = "name" -> ~NonEmpty(p.name)
      [] f = "type" -> ~NonEmpty(p.type)
      [] f = "description" -> ~p.description.present \/ p.description.length = 0
      [] f = "license" -> ~p.license.present
      [] f = "time" -> ~p.time.present
      [] f = "author" -> ~p.author.present
      [] f = "repo" -> ~p.repo.present
      [] f = "home" -> p.home = <<>>

\* The required fields in the order the specification lists them.
Required == <<"name", "type", "description", "license", "time", "author", "repo">>
RequiredOf(sch) == IF sch = "extended" THEN Append(Required, "home") ELSE Required

LacksSome(p, sch) == \E n \in 1..Len(RequiredOf(sch)) : Lacks(p, RequiredOf(sch)[n])

FirstLacked(p, sch) ==
    LET n == CHOOSE n \in 1..Len(RequiredOf(sch)) :
                 /\ Lacks(p, RequiredOf(sch)[n])
                 /\ \A m \in 1..(n - 1) : ~Lacks(p, RequiredOf(sch)[m])
    IN  RequiredOf(sch)[n]

\* Field rules other than the membership of the variant.
FieldRules(p, sch) ==
    /\ ~LacksSome(p, sch)
    /\ p.time.pattern /\ p.time.month >= 1 /\ p.time.month <= 12
    /\ p.description.length <= 50
    /\ NonEmpty(p.license.name) /\ IsUrl(p.license.url)
    /\ p.author.isArray /\ p.author.items # <<>>
    /\ p.repo.isArray /\ p.repo.items # <<>>
    /\ sch = "extended" => IsUrl(p.home)

AuthorRules(p) ==
    \A n \in 1..Len(p.author.items) :
        NonEmpty(p.author.items[n].name) /\ IsUrl(p.author.items[n].home)

RepoKinds == {"github", "gitee", "gitcode", "gitlab", "npm"}

RepoRules(p) ==
    \A n \in 1..Len(p.repo.items) :
        p.repo.items[n].type \in RepoKinds /\ IsUrl(p.repo.items[n].url)

\* npm: the branch is the empty string; any other kind: a non-empty branch.
BranchRule(r) == IF r.type = "npm" THEN r.branch = "" ELSE NonEmpty(r.branch)

FilesRule(p) ==
    p.type = "app" =>
        /\ p.files.isArray /\ p.files.items # <<>>
        /\ \A n \in 1..Len(p.files.items) : IsUrl(p.files.items[n])

\* Well-formed but for the variant and what depends on it.
OtherwiseWellFormed(p, sch) ==
    /\ FieldRules(p, sch) /\ AuthorRules(p) /\ RepoRules(p)
    /\ sch = "extended" => \A n \in 1..Len(p.repo.items) : BranchRule(p.repo.items[n])

WellFormed(p, sch) ==
    /\ OtherwiseWellFormed(p, sch)
    /\ p.type \in {"npm", "git", "app"}
    /\ FilesRule(p)

HasDuplicate ==
    \E a, b \in 1..Len(plugins) : a < b /\ plugins[a].name = plugins[b].name

\* Places of the log.
Logged(ev, pi, rj) ==
    {n \in 1..Len(log) : log[n].ev = ev /\ log[n].i = pi /\ log[n].j = rj}

AllAnswersOk == \A n \in 1..Len(log) : log[n].ev = "response" => log[n].res = "ok"

\* Some per-record check has been executed.
PerRecordRan == \E n \in 1..Len(log) : log[n].ev # "unique"

(* ------------------------------ claims ------------------------------- *)

Reported(kind) == Len(errors) = 1 /\ errors[1].kind = kind /\ status = 1 /\ ~passed

Success == status = 0 /\ passed /\ errors = <<>>

\* C1 (as claimed): a finished run over schema-well-formed records with
\* distinct names and variants among npm, git and app, whose fetches were all
\* answered well, ended with the success outcome and no error reported.
C1_EndToEnd ==
    (/\ Done
     /\ ~HasDuplicate
     /\ \A k \in 1..Len(plugins) : WellFormed(plugins[k], schema)
     /\ AllAnswersOk)
    => Success

\* C2 (as claimed): when a run ends at a record that is well-formed but for
\* its files, with every fetch answered well: an app record without files, or
\* with none, is reported as MissingFiles; an app record with a file that is
\* no URL as InvalidFileUrl; an app record with valid files, and every npm or
\* git record, is not reported at all.
C2_VariantDispatch ==
    (/\ Done
     /\ i >= 1
     /\ OtherwiseWellFormed(plugins[i], schema)
     /\ plugins[i].type \in {"npm", "git", "app"}
     /\ AllAnswersOk)
    => LET p == plugins[i]
       IN  IF p.type = "app" /\ (~p.files.isArray \/ p.files.items = <<>>)
           THEN Reported("MissingFiles")
           ELSE IF p.type = "app" /\ ~FilesRule(p)
           THEN Reported("InvalidFileUrl")
           ELSE errors = <<>>

\* C3: the uniqueness pass is the first thing executed, and when two records
\* share a name the run ends right after it, reporting DuplicateName and
\* nothing else, with no per-record check executed.
C3_UniquenessFirst ==
    /\ log # <<>> => log[1].ev = "unique"
    /\ (HasDuplicate /\ pc # "unique")
         => /\ Done
            /\ Reported("DuplicateName")
            /\ ~PerRecordRan

\* C3's case: a run has ended on a collection where two records share a name
\* and a third has a timestamp of month 13.
C3_Witness ==
    /\ Done
    /\ \E a, b, c \in 1..Len(plugins) :
         /\ a < b /\ c # a /\ c # b
         /\ plugins[a].name = plugins[b].name
         /\ plugins[c].time.present /\ plugins[c].time.month = 13

\* The repository entry a place of the log is about.
EntryAt(n) == plugins[log[n].i].repo.items[log[n].j]

Places(ev) == {n \in 1..Len(log) : log[n].ev = ev}

\* The run has failed on repository entry r of record p with this error.
ReportedFor(kind, p, r) ==
    /\ Reported(kind)
    /\ errors[1].plugin = p.name
    /\ errors[1].url = r.url

\* C4: in the extended script, once validatePackageJson has been called on an
\* npm entry whose branch is not the empty string the run has failed with
\* UnexpectedBranch, and on an entry of another kind whose branch is empty or
\* missing with MissingBranch; the call is the last thing executed, and no
\* fetch was issued for the entry.
C4_BranchRule ==
    \A n \in Places("package") :
        LET r == EntryAt(n)
            p == plugins[log[n].i]
            kind == IF r.type = "npm" THEN "UnexpectedBranch" ELSE "MissingBranch"
        IN  ~BranchRule(r)
              => /\ Done
                 /\ ReportedFor(kind, p, r)
                 /\ n = Len(log)
                 /\ Logged("fetch", log[n].i, log[n].j) = {}

\* C4's case: a run has failed on an npm entry that has no branch property.
C4_Witness ==
    /\ Done
    /\ Reported("UnexpectedBranch")
    /\ \E n \in Places("package") : EntryAt(n).type = "npm" /\ EntryAt(n).branch = Undefined

\* Every check of the schema generation has been executed on every record.
AllChecksRan ==
    /\ Logged("unique", 0, 0) # {}
    /\ \A k \in 1..Len(plugins) :
         /\ \A ev \in {"base", "author", "repo", "variant"} : Logged(ev, k, 0) # {}
         /\ plugins[k].type = "app" => Logged("app", k, 0) # {}
         /\ schema = "extended" =>
              \A m \in 1..Len(plugins[k].repo.items) :
                 /\ Logged("package", k, m) # {}
                 /\ plugins[k].repo.items[m].type # "npm" =>
                      \E n \in Logged("response", k, m) : log[n].res = "ok"

\* C5: the success line and the status 0 come together, at the end of a run
\* that reported nothing, on a collection without duplicate names whose
\* records are all well-formed, after every check has been executed on every
\* record; a finished run on any other collection has status 1.
C5_SuccessSound ==
    /\ (passed \/ status = 0)
         => /\ Done /\ Success
            /\ ~HasDuplicate
            /\ \A k \in 1..Len(plugins) : WellFormed(plugins[k], schema)
            /\ AllChecksRan
    /\ (Done /\ (HasDuplicate \/ \E k \in 1..Len(plugins) : ~WellFormed(plugins[k], schema)))
         => status = 1 /\ ~passed

\* C5's case: the extended script has passed a collection of several records.
C5_Witness == Done /\ Success /\ Len(plugins) >= 2 /\ schema = "extended"

\* C6: as soon as an error is reported it is the only one, the run is over
\* with status 1 and without the success line, no fetch is outstanding and no
\* record after the offending one has been looked at; and from then on
\* nothing more is executed, fetched or reported.
C6_FailFast ==
    /\ [](errors # <<>> =>
            /\ Len(errors) = 1
            /\ Done /\ status = 1 /\ ~passed
            /\ inflight = {}
            /\ \A n \in 1..Len(log) : log[n].i <= i)
    /\ [][errors # <<>> => (log' = log /\ errors' = errors /\ inflight' = inflight)]_vars

\* C6's case: a run has failed at a record that is not the last, and a later
\* record is ill-formed too.
C6_Witness ==
    /\ Done /\ Len(errors) = 1
    /\ i >= 1
    /\ \E k \in (i + 1)..Len(plugins) : ~WellFormed(plugins[k], schema)

\* What the MissingField error says of record p.
MissingFieldOf(p) ==
    /\ Reported("MissingField")
    /\ errors[1].plugin = (IF NonEmpty(p.name) THEN p.name ELSE "unknown")
    /\ errors[1].field = FirstLacked(p, schema)

\* C7 (as claimed): when a record lacks a required field and no record before
\* it breaks a rule, the finished run reports MissingField with that record's
\* name, or "unknown", and the first field it lacks.
C7_MissingFieldAlways ==
    (Done /\ AllAnswersOk)
    => \A k \in 1..Len(plugins) :
          (/\ LacksSome(plugins[k], schema)
           /\ \A m \in 1..(k - 1) : WellFormed(plugins[m], schema))
          => MissingFieldOf(plugins[k])

\* C7 (amended): when the uniqueness pass finds no two records with the same
\* name value (a missing name being one value) and the run comes to the field
\* check of a record that lacks a required field, the finished run reports
\* MissingField with that record's name, or "unknown", and the first field it
\* lacks.
C7_MissingField ==
    (Done /\ ~HasDuplicate)
    => \A k \in 1..Len(plugins) :
          (LacksSome(plugins[k], schema) /\ Logged("base", k, 0) # {})
          => MissingFieldOf(plugins[k])

\* C7's case: a run has failed at its second record or later, which has no
\* name.
C7_Witness ==
    /\ Done /\ i >= 2
    /\ ~NonEmpty(plugins[i].name)
    /\ Reported("MissingField") /\ errors[1].plugin = "unknown"

\* C8 (as claimed): a fetch is issued only for a record that passes all of its
\* local validation.
C8_FetchAfterLocal ==
    \A n \in Places("fetch") : WellFormed(plugins[log[n].i], schema)

\* C8 (amended): a fetch for an entry is issued only after the record has
\* passed the field checks but for the variant's membership, the author and
\* the repository validator, and after that entry and the entries before it
\* have passed the branch rule; the dispatch on the variant has not run yet.
C8_FetchAfterFields ==
    \A n \in Places("fetch") :
        LET k == log[n].i
            p == plugins[k]
        IN  /\ FieldRules(p, schema) /\ AuthorRules(p) /\ RepoRules(p)
            /\ \A m \in 1..log[n].j : BranchRule(p.repo.items[m])
            /\ \A ev \in {"base", "author", "repo"} : \E q \in Logged(ev, k, 0) : q < n
            /\ \A q \in Logged("variant", k, 0) : q > n

\* C8's case: a run has fetched for a record and then rejected its variant.
C8_Witness ==
    /\ Done
    /\ Reported("InvalidVariant")
    /\ \E n \in Places("fetch") : log[n].i = i

\* The URL the specification derives for an entry's manifest.
ManifestUrl(r) ==
    IF r.type = "npm"
    THEN <<"https:", "registry.npmjs.org", "/">> \o r.url \o <<"/latest">>
    ELSE IF r.type = "github"
    THEN <<r.url[1], "raw.githubusercontent.com", r.url[3], "/", r.branch, "/", "package.json">>
    ELSE r.url \o <<"/raw/", r.branch, "/", "package.json">>

FetchesAt(n) == Logged("fetch", log[n].i, log[n].j)

\* A bad answer has ended the run with the matching error.
AnswersChecked ==
    \A n \in Places("response") :
        /\ log[n].res \in {"rejected", "notOk"}
             => ReportedFor("RemoteFetchFailed", plugins[log[n].i], EntryAt(n))
        /\ log[n].res \in {"notJson", "noName", "noVersion"}
             => ReportedFor("RemoteManifestIncomplete", plugins[log[n].i], EntryAt(n))

\* C9 (as claimed): every entry that validatePackageJson is called on and
\* that satisfies the branch rule, npm included, gets exactly one fetch, of
\* the URL derived for it, and its answer is checked.
C9_OneFetchPerEntry ==
    /\ \A n \in Places("package") :
          BranchRule(EntryAt(n))
            => /\ Cardinality(FetchesAt(n)) = 1
               /\ \A q \in FetchesAt(n) : log[q].url = ManifestUrl(EntryAt(n))
    /\ AnswersChecked

\* C9 (amended): every entry of a kind other than npm that validatePackageJson
\* is called on and that satisfies the branch rule gets exactly one fetch, of
\* the raw manifest URL derived from its URL and branch, and its answer is
\* checked; an npm entry gets no fetch at all.
C9_OneFetchPerGitEntry ==
    /\ \A n \in Places("package") :
          BranchRule(EntryAt(n))
            => IF EntryAt(n).type = "npm"
               THEN FetchesAt(n) = {}
               ELSE /\ Cardinality(FetchesAt(n)) = 1
                    /\ \A q \in FetchesAt(n) : log[q].url = ManifestUrl(EntryAt(n))
    /\ \A q \in Places("fetch") : Logged("package", log[q].i, log[q].j) # {}
    /\ AnswersChecked

\* C9's case: validatePackageJson has been through an npm entry with an empty
\* branch and has fetched for a github entry.
C9_Witness ==
    /\ \E n \in Places("package") : EntryAt(n).type = "npm" /\ EntryAt(n).branch = ""
    /\ \E q \in Places("fetch") : EntryAt(q).type = "github"

\* (a, b) comes before (c, d) in declaration order.
Before(a, b, c, d) == a < c \/ (a = c /\ b < d)

\* C10: at most one fetch is outstanding; a fetch is directly followed by its
\* answer, and any later fetch comes after a good answer and is for a later
\* entry in declaration order.
C10_Sequential ==
    /\ Cardinality(inflight) <= 1
    /\ \A rq \in inflight : log[Len(log)].ev = "fetch" /\ rq = <<log[Len(log)].i, log[Len(log)].j>>
    /\ \A n \in Places("fetch") :
          /\ n < Len(log) =>
                /\ log[n + 1].ev = "response"
                /\ log[n + 1].i = log[n].i /\ log[n + 1].j = log[n].j
          /\ \A m \in Places("fetch") :
                n < m => /\ Before(log[n].i, log[n].j, log[m].i, log[m].j)
                         /\ log[n + 1].res = "ok"

\* C10's case: fetches have been issued for two repositories of one record
\* and for a later record.
C10_Witness ==
    \E n, m, q \in Places("fetch") :
        /\ log[n].i = log[m].i /\ log[n].j < log[m].j
        /\ log[m].i < log[q].i

=============================================================================
